---------------------------- MODULE Spec2Model ----------------------------
(***************************************************************************)
(* Model of frate-packages/new_indexer.                                    *)
(*                                                                         *)
(*   Spec          the package server (src/unnamed/part_001): the four     *)
(*                 request handlers over the four tables of the store.     *)
(*   SpecRace      the create and delete handlers run concurrently.        *)
(*   SpecClassify  validateVersionName (src/main.go, 277-313).             *)
(*   SpecResolve   the remote version resolver (src/main.go, 288-348).     *)
(*   SpecTransform one Transform of a raw entry, by either variant         *)
(*                 (src/main.go, 54-174 and 367-477).                      *)
(*   SpecMain      the batch loop of main (src/main.go, 176-219).          *)
(*                                                                         *)
(* Strings the code takes apart (ref names, ls-remote output) are          *)
(* sequences of one-character strings.                                     *)
(***************************************************************************)
EXTENDS Integers, Sequences, FiniteSets, TLC

VARIABLES
    \* ---- the store (data.sql), one sequence of rows per table, in rowid order
    packages, dependencies, features, feature_dependencies,
    \* ---- the last response the server wrote, with what the handler did
    resp,
    \* ---- history of the requests, per package name
    life, fresh, nCreated,
    \* ---- the classifier: a ref name and what validateVersionName said of it
    refName, verdict,
    \* ---- the resolver: the raw entry, the remote, the Package being built
    rp, remote, packageInfo, invoked, err, rpc,
    \* ---- one Transform: the raw entry and what Transform gave for it
    raw, result,
    \* ---- main: data.json, the loop over root.Source, transformed_data.json
    file, source, idx, transformedPackages, outputFile, mpc,
    \* ---- concurrent requests: the handlers in flight, each with the store
    \* ---- statements it has still to run, and the names a delete has removed
    reqs, removed

storeVars == <<packages, dependencies, features, feature_dependencies,
               resp, life, fresh, nCreated>>

classifyVars == <<refName, verdict>>

resolveVars == <<rp, remote, packageInfo, invoked, err, rpc>>

transformVars == <<raw, result>>

mainVars == <<file, source, idx, transformedPackages, outputFile, mpc>>

raceVars == <<reqs, removed>>

vars == <<storeVars, classifyVars, resolveVars, transformVars, mainVars, raceVars>>

\* what the actions of one part leave alone
notStore == <<classifyVars, resolveVars, transformVars, mainVars, raceVars>>
notClassify == <<storeVars, resolveVars, transformVars, mainVars, raceVars>>
notResolve == <<storeVars, classifyVars, transformVars, mainVars, raceVars>>
notTransform == <<storeVars, classifyVars, resolveVars, mainVars, raceVars>>
notMain == <<storeVars, classifyVars, resolveVars, transformVars, raceVars>>
notRace == <<resp, life, fresh, nCreated,
             classifyVars, resolveVars, transformVars, mainVars>>

-----------------------------------------------------------------------------
(* Bounds of the model. *)

MaxFail == 1        \* store statements that fail within one request
MaxCreates == 2     \* package rows inserted in one run

(* Small sets the requests draw their inputs from. *)
Names == {"p", "q"}
FeatNames == {"x", "y"}

-----------------------------------------------------------------------------
(* Helpers on sequences. *)

BSeq(S, n) == UNION {[1..k -> S] : k \in 0..n}

Range(s) == {s[i] : i \in DOMAIN s}

RECURSIVE Flatten(_)
Flatten(ss) == IF ss = <<>> THEN <<>> ELSE Head(ss) \o Flatten(Tail(ss))

\* the elements of s at the indices of K, from index i on, in order
RECURSIVE KeepIdx(_, _, _)
KeepIdx(s, i, K) ==
    IF i > Len(s) THEN <<>>
    ELSE (IF i \in K THEN <<s[i]>> ELSE <<>>) \o KeepIdx(s, i + 1, K)

\* the sequence s with f applied to every element
MapSeq(s, f(_)) == [i \in DOMAIN s |-> f(s[i])]

\* every ordering of the finite set S, as a sequence without repetition
Perms(S) == {s \in [1..Cardinality(S) -> S] : Range(s) = S}

-----------------------------------------------------------------------------
(* The Package and Feature of the server. *)

NoFeatures == [f \in {} |-> 0]

Feature(desc, deps) ==
    [description |-> desc, required_features |-> <<>>, dependencies |-> deps]

\* the dependency lists and feature maps the create requests carry
Shapes ==
    {[version |-> "1.0", dependencies |-> <<"b", "a">>,
      features |-> [f \in {"x"} |-> Feature("d1", <<"b">>)]],
     [version |-> "2.0", dependencies |-> <<>>,
      features |-> [f \in {"x", "y"} |->
                       IF f = "x" THEN Feature("d2", <<"a">>)
                       ELSE Feature("d1", <<"b">>)]]}

PackageIn ==
    {[name |-> n, version |-> s.version, description |-> "desc",
      git_url |-> "url", license |-> "MIT", supports |-> "",
      stars |-> 7, last_modified |-> "t0", cmake_target |-> "",
      dependencies |-> s.dependencies, features |-> s.features] :
        n \in Names, s \in Shapes}

PackageRow(pkg) ==
    [name |-> pkg.name, version |-> pkg.version, description |-> pkg.description,
     git_url |-> pkg.git_url, license |-> pkg.license, supports |-> pkg.supports,
     stars |-> pkg.stars, last_modified |-> pkg.last_modified,
     cmake_target |-> pkg.cmake_target]

-----------------------------------------------------------------------------
(* Store statements.  Each db.Exec / db.Query of a handler is named by the  *)
(* table it touches, the feature it is about and its position in a list; a  *)
(* request draws the set of its statements that fail.                       *)

Stmt(t, f, i) == [t |-> t, f |-> f, i |-> i]

FailSets(S) == {F \in SUBSET S : Cardinality(F) <= MaxFail}

InsertStmts(pkg) ==
    {Stmt("packages", "", 0)}
    \cup {Stmt("dependencies", "", i) : i \in 1..Len(pkg.dependencies)}
    \cup {Stmt("features", f, 0) : f \in DOMAIN pkg.features}
    \cup UNION {{Stmt("feature_dependencies", f, i) :
                    i \in 1..Len(pkg.features[f].dependencies)} :
                f \in DOMAIN pkg.features}

DeleteStmts ==
    {Stmt(t, "", 0) :
        t \in {"packages", "dependencies", "features", "feature_dependencies"}}

\* a query is named by its table, the package and the feature it is scoped to
Query(t, p, f) == [t |-> t, p |-> p, f |-> f]

-----------------------------------------------------------------------------
(* The read side: getPackageDependencies, getFeatureDependencies,           *)
(* getPackageFeatures.  qf is the set of queries that fail.                 *)

getPackageDependencies(packageName, qf) ==
    IF Query("dependencies", packageName, "") \in qf THEN <<>>
    ELSE MapSeq(SelectSeq(dependencies, LAMBDA r : r.package_name = packageName),
                LAMBDA r : r.dependency_name)

getFeatureDependencies(packageName, featureName, qf) ==
    IF Query("feature_dependencies", packageName, featureName) \in qf THEN <<>>
    ELSE MapSeq(SelectSeq(feature_dependencies,
                          LAMBDA r : r.package_name = packageName
                                     /\ r.feature_name = featureName),
                LAMBDA r : r.dependency_name)

\* the Go map: a later row of the same feature name overwrites an earlier one
getPackageFeatures(packageName, qf) ==
    IF Query("features", packageName, "") \in qf THEN NoFeatures
    ELSE LET rows == SelectSeq(features, LAMBDA r : r.package_name = packageName)
             last(f) == CHOOSE i \in DOMAIN rows :
                            /\ rows[i].feature_name = f
                            /\ \A j \in DOMAIN rows :
                                   rows[j].feature_name = f => j <= i
         IN  [f \in {rows[i].feature_name : i \in DOMAIN rows} |->
                 [description |-> rows[last(f)].description,
                  dependencies |-> getFeatureDependencies(packageName, f, qf),
                  required_features |-> <<>>]]

\* the Package a handler answers with for one row of packages
ReadPackage(row, qf) ==
    [name |-> row.name, version |-> row.version, description |-> row.description,
     git_url |-> row.git_url, license |-> row.license, supports |-> row.supports,
     stars |-> row.stars, last_modified |-> row.last_modified,
     cmake_target |-> row.cmake_target,
     dependencies |-> getPackageDependencies(row.name, qf),
     features |-> getPackageFeatures(row.name, qf)]

\* the queries a read of package p runs
QueriesOf(p) ==
    {Query("dependencies", p, ""), Query("features", p, "")}
    \cup {Query("feature_dependencies", p, features[i].feature_name) :
             i \in {j \in DOMAIN features : features[j].package_name = p}}

\* the queries a list can run
ListQueries ==
    {Query("packages", "", "")}
    \cup UNION {QueriesOf(packages[i].name) : i \in DOMAIN packages}

-----------------------------------------------------------------------------
(* The write side: insertDependencies, insertFeatures.  Each gives the rows *)
(* it appends and the statements it ran.                                    *)

insertDependencies(packageName, deps, fail) ==
    [rows |-> KeepIdx([i \in DOMAIN deps |->
                          [package_name |-> packageName, dependency_name |-> deps[i]]],
                      1, {i \in DOMAIN deps : Stmt("dependencies", "", i) \notin fail}),
     ran |-> {Stmt("dependencies", "", i) : i \in DOMAIN deps}]

\* an insertFeatures without the continue of line 159
insertFeatures_noContinue(packageName, feats, ord, fail) ==
    LET ok(f) == Stmt("features", f, 0) \notin fail
        fdeps(f) == feats[f].dependencies
        fdRows(f) ==
            KeepIdx([i \in DOMAIN fdeps(f) |->
                        [package_name |-> packageName, feature_name |-> f,
                         dependency_name |-> fdeps(f)[i]]],
                    1, {i \in DOMAIN fdeps(f) :
                           Stmt("feature_dependencies", f, i) \notin fail})
    IN  [features |->
             MapSeq(SelectSeq(ord, ok),
                    LAMBDA f : [package_name |-> packageName, feature_name |-> f,
                                description |-> feats[f].description]),
         feature_dependencies |-> Flatten([k \in DOMAIN ord |-> fdRows(ord[k])]),
         ran |-> {Stmt("features", f, 0) : f \in DOMAIN feats}
                 \cup UNION {{Stmt("feature_dependencies", f, i) :
                                 i \in DOMAIN fdeps(f)} : f \in DOMAIN feats}]

\* ord is the order in which range visits the keys of the map
insertFeatures(packageName, feats, ord, fail) ==
    LET ok(f) == Stmt("features", f, 0) \notin fail
        fdeps(f) == feats[f].dependencies
        fdRows(f) ==
            IF ok(f)
            THEN KeepIdx([i \in DOMAIN fdeps(f) |->
                             [package_name |-> packageName, feature_name |-> f,
                              dependency_name |-> fdeps(f)[i]]],
                         1, {i \in DOMAIN fdeps(f) :
                                Stmt("feature_dependencies", f, i) \notin fail})
            ELSE <<>>
    IN  [features |->
             MapSeq(SelectSeq(ord, ok),
                    LAMBDA f : [package_name |-> packageName, feature_name |-> f,
                                description |-> feats[f].description]),
         feature_dependencies |-> Flatten([k \in DOMAIN ord |-> fdRows(ord[k])]),
         ran |-> {Stmt("features", f, 0) : f \in DOMAIN feats}
                 \cup UNION {{Stmt("feature_dependencies", f, i) :
                                 i \in DOMAIN fdeps(f)} :
                             f \in {g \in DOMAIN feats : ok(g)}}]

\* a delete that removes one matching row only
deleteWhereName_firstOnly(tbl, packageName) ==
    LET hit == {i \in DOMAIN tbl : tbl[i].name = packageName}
    IN  IF hit = {} THEN tbl
        ELSE KeepIdx(tbl, 1, DOMAIN tbl \ {CHOOSE i \in hit : \A j \in hit : i <= j})

\* DELETE FROM packages WHERE name = ?
deleteWhereName(tbl, packageName) ==
    SelectSeq(tbl, LAMBDA r : r.name # packageName)

\* DELETE FROM <dependent table> WHERE package_name = ?
deleteWherePackageName(tbl, packageName) ==
    SelectSeq(tbl, LAMBDA r : r.package_name # packageName)

-----------------------------------------------------------------------------
(* Responses. *)

NoBody == <<>>

Response(op, name, status, body, ran, failed) ==
    [op |-> op, name |-> name, status |-> status, body |-> body,
     ran |-> ran, failed |-> failed]

NoPkg == [name |-> ""]

StoreInit ==
    /\ packages = <<>>
    /\ dependencies = <<>>
    /\ features = <<>>
    /\ feature_dependencies = <<>>
    /\ resp = Response("none", "", 0, NoBody, {}, {})
    /\ life = [n \in Names |-> "never"]
    /\ fresh = [n \in Names |-> NoPkg]
    /\ nCreated = 0

RowsOf(n) ==
    <<SelectSeq(packages, LAMBDA r : r.name = n),
      SelectSeq(dependencies, LAMBDA r : r.package_name = n),
      SelectSeq(features, LAMBDA r : r.package_name = n),
      SelectSeq(feature_dependencies, LAMBDA r : r.package_name = n)>>

NoRowsOf(n) == RowsOf(n) = <<<<>>, <<>>, <<>>, <<>>>>

-----------------------------------------------------------------------------
(* The handlers. *)

\* GET /packages
listPackages ==
    \E qf \in FailSets(ListQueries) :
        LET made == {Query("packages", "", "")}
                    \cup (IF Query("packages", "", "") \in qf THEN {}
                          ELSE UNION {QueriesOf(packages[i].name) :
                                         i \in DOMAIN packages})
        IN  /\ resp' = IF Query("packages", "", "") \in qf
                       THEN Response("list", "", 500, NoBody, made, qf \cap made)
                       ELSE Response("list", "", 200,
                                     MapSeq(packages, LAMBDA r : ReadPackage(r, qf)),
                                     made, qf \cap made)
            /\ life' = [n \in Names |->
                           IF /\ life[n] = "created"
                              /\ Query("packages", "", "") \notin qf
                              /\ \E i \in DOMAIN packages : packages[i].name = n
                           THEN "listed" ELSE life[n]]
            /\ UNCHANGED <<packages, dependencies, features, feature_dependencies,
                           fresh, nCreated, notStore>>

\* GET /package?name=
getPackage ==
    \E packageName \in Names \cup {""} :
    \E qf \in FailSets({Query("packages", "", "")} \cup QueriesOf(packageName)) :
        LET rows == SelectSeq(packages, LAMBDA r : r.name = packageName)
            first == Query("packages", "", "")
            made == IF packageName = "" THEN {}
                    ELSE {first} \cup (IF first \in qf \/ rows = <<>> THEN {}
                                       ELSE QueriesOf(packageName))
        IN  /\ resp' =
                 IF packageName = ""
                 THEN Response("get", "", 400, NoBody, {}, {})
                 ELSE IF first \in qf
                 THEN Response("get", packageName, 500, NoBody, made, qf \cap made)
                 ELSE IF rows = <<>>
                 THEN Response("get", packageName, 404, NoBody, made, qf \cap made)
                 ELSE Response("get", packageName, 200,
                               <<ReadPackage(rows[1], qf)>>, made, qf \cap made)
            /\ UNCHANGED <<packages, dependencies, features, feature_dependencies,
                           life, fresh, nCreated, notStore>>

\* POST /package/create with a body that decodes
createPackage ==
    /\ nCreated < MaxCreates
    /\ UNCHANGED notStore
    /\ \E pkg \in PackageIn :
       \E fail \in FailSets(InsertStmts(pkg)), ord \in Perms(DOMAIN pkg.features) :
        LET first == Stmt("packages", "", 0)
            deps == insertDependencies(pkg.name, pkg.dependencies, fail)
            feats == insertFeatures(pkg.name, pkg.features, ord, fail)
            ran == {first} \cup deps.ran \cup feats.ran
        IN  IF first \in fail
            THEN /\ resp' = Response("create", pkg.name, 500, <<pkg>>, {first}, {first})
                 /\ UNCHANGED <<packages, dependencies, features,
                                feature_dependencies, life, fresh, nCreated>>
            ELSE /\ packages' = Append(packages, PackageRow(pkg))
                 /\ dependencies' = dependencies \o deps.rows
                 /\ features' = features \o feats.features
                 /\ feature_dependencies' =
                        feature_dependencies \o feats.feature_dependencies
                 /\ resp' = Response("create", pkg.name, 201, <<pkg>>, ran,
                                     fail \cap ran)
                 /\ life' = [life EXCEPT ![pkg.name] = "created"]
                 /\ fresh' = [fresh EXCEPT ![pkg.name] =
                                 IF NoRowsOf(pkg.name) /\ fail \cap ran = {}
                                 THEN pkg ELSE NoPkg]
                 /\ nCreated' = nCreated + 1

\* POST /package/create with a body that does not decode
createMalformed ==
    /\ resp' = Response("create", "", 400, NoBody, {}, {})
    /\ UNCHANGED <<packages, dependencies, features, feature_dependencies,
                   life, fresh, nCreated, notStore>>

\* /package/delete?name=
deletePackage ==
    /\ UNCHANGED notStore
    /\ \E packageName \in Names \cup {""}, fail \in FailSets(DeleteStmts) :
        LET first == Stmt("packages", "", 0)
            del(tbl, t) ==
                IF Stmt(t, "", 0) \in fail THEN tbl
                ELSE deleteWherePackageName(tbl, packageName)
        IN  IF packageName = ""
            THEN /\ resp' = Response("delete", "", 400, NoBody, {}, {})
                 /\ UNCHANGED <<packages, dependencies, features,
                                feature_dependencies, life, fresh, nCreated>>
            ELSE IF first \in fail
            THEN /\ resp' = Response("delete", packageName, 500, NoBody,
                                     {first}, {first})
                 /\ UNCHANGED <<packages, dependencies, features,
                                feature_dependencies, life, fresh, nCreated>>
            ELSE /\ packages' = deleteWhereName(packages, packageName)
                 /\ dependencies' = del(dependencies, "dependencies")
                 /\ features' = del(features, "features")
                 /\ feature_dependencies' =
                        del(feature_dependencies, "feature_dependencies")
                 /\ resp' = Response("delete", packageName, 200, NoBody,
                                     DeleteStmts, fail)
                 /\ life' = [life EXCEPT ![packageName] =
                                CASE @ = "created" -> "deleted"
                                  [] @ = "listed" -> "deletedAfterList"
                                  [] OTHER -> @]
                 /\ fresh' = [fresh EXCEPT ![packageName] = NoPkg]
                 /\ UNCHANGED nCreated


-----------------------------------------------------------------------------
(* Claims about the package server, checked under Spec. *)

tables == <<packages, dependencies, features, feature_dependencies>>

BodyNames == {resp.body[i].name : i \in DOMAIN resp.body}

\* C1: once a create of N has been followed by a delete of N that answered
\* 200, and N has not been created again, no list response contains N,
\* whether or not a list ran between the create and the delete.
C1_DeletedNeverListed ==
    (resp.op = "list" /\ resp.status = 200) =>
        \A n \in Names :
            life[n] \in {"deleted", "deletedAfterList"} => n \notin BodyNames

\* a list answers with another package after N was created, listed and
\* then deleted
C1_Witness ==
    /\ resp.op = "list" /\ resp.status = 200 /\ resp.body # <<>>
    /\ \E n \in Names : life[n] = "deletedAfterList"

\* C2: after a delete(name) that answers 200 no table holds a row of that
\* name, and a delete of a name without a package row answers 200 and
\* changes nothing.
C2_DeleteRemovesAllRows ==
    [][(resp'.op = "delete" /\ resp'.name # "") =>
          /\ resp'.status = 200 =>
                /\ \A i \in DOMAIN packages' : packages'[i].name # resp'.name
                /\ \A i \in DOMAIN dependencies' :
                       dependencies'[i].package_name # resp'.name
                /\ \A i \in DOMAIN features' :
                       features'[i].package_name # resp'.name
                /\ \A i \in DOMAIN feature_dependencies' :
                       feature_dependencies'[i].package_name # resp'.name
          /\ ((\A i \in DOMAIN packages : packages[i].name # resp'.name)
              /\ Stmt("packages", "", 0) \notin resp'.failed) =>
                (resp'.status = 200 /\ UNCHANGED tables)]_vars

\* what the create of the last response was asked to store
Created == resp.body[1]

RanOn(t) == {st \in resp.ran : st.t = t}

Stored(t) == {st \in resp.ran \ resp.failed : st.t = t}

\* the part of C3 about the packages row, and the rows a create adds
C3_Common ==
    (resp'.op = "create" /\ resp'.status # 400) =>
        /\ resp'.status \in {201, 500}
        /\ resp'.status = 500 <=> Stmt("packages", "", 0) \in resp'.failed
        /\ resp'.status = 500 => UNCHANGED tables
        /\ resp'.status = 201 =>
              /\ Len(packages') = Len(packages) + 1
              /\ Len(dependencies') = Len(dependencies)
                                      + Cardinality(Stored("dependencies")')
              /\ Len(features') = Len(features) + Cardinality(Stored("features")')
              /\ Len(feature_dependencies') =
                     Len(feature_dependencies)
                     + Cardinality(Stored("feature_dependencies")')

\* C3 as stated: after the packages row is in, every row of the package is
\* attempted whichever single insert fails.
C3_EveryRowAttempted ==
    [][C3_Common
       /\ ((resp'.op = "create" /\ resp'.status = 201) =>
              resp'.ran = InsertStmts(Created'))]_vars

\* C3 amended: a failed packages insert answers 500 and writes nothing; after
\* the packages row is in, the request answers 201 and attempts every
\* dependency row, every feature row and the feature-dependency rows of
\* every feature whose own row was inserted; the feature-dependency rows
\* of a feature whose insert failed are not attempted.
C3_SiblingsAttempted ==
    [][C3_Common
       /\ ((resp'.op = "create" /\ resp'.status = 201) =>
              resp'.ran =
                  InsertStmts(Created') \
                      {st \in InsertStmts(Created') :
                          /\ st.t = "feature_dependencies"
                          /\ Stmt("features", st.f, 0) \in resp'.failed})]_vars

\* a create answered 201 although the insert of a feature with dependencies
\* failed, and the other feature was stored with its dependency
C3_Witness ==
    /\ resp.op = "create" /\ resp.status = 201
    /\ \E f \in DOMAIN Created.features :
          /\ Stmt("features", f, 0) \in resp.failed
          /\ Created.features[f].dependencies # <<>>
          /\ Stmt("feature_dependencies", f, 1) \notin resp.ran
          /\ \E g \in DOMAIN Created.features \ {f} :
                 Stmt("feature_dependencies", g, 1) \in resp.ran \ resp.failed

\* C4: a list or get during which a store query failed answers 500.
C4_QueryFailureAnswers500 ==
    (resp.op \in {"list", "get"} /\ resp.failed # {}) => resp.status = 500

SamePackage(got, P) ==
    /\ PackageRow(got) = PackageRow(P)
    /\ got.dependencies = P.dependencies
    /\ DOMAIN got.features = DOMAIN P.features
    /\ \A f \in DOMAIN P.features :
          /\ got.features[f].description = P.features[f].description
          /\ got.features[f].dependencies = P.features[f].dependencies

\* the packages of the last 200 response of a get or list whose name was
\* created, every insert succeeding, on a store without rows of that name
FreshAnswers ==
    IF resp.op \in {"list", "get"} /\ resp.status = 200
    THEN {i \in DOMAIN resp.body : fresh[resp.body[i].name] # NoPkg}
    ELSE {}

\* C5: after create(P), every insert succeeding, on a store without rows of
\* P.name, get(P.name) and the P.name entry of list carry P's scalars,
\* dependencies and features (description and dependencies of each).
C5_RoundTrip ==
    \A i \in FreshAnswers : SamePackage(resp.body[i], fresh[resp.body[i].name])

\* the same round trip for the answers during which no query failed
C5_RoundTripOfCompleteReads ==
    resp.failed = {} => C5_RoundTrip

-----------------------------------------------------------------------------
(* Strings as sequences of characters: strings.Split, strings.Contains and  *)
(* regexp.MatchString for the patterns of versionRegexes.                   *)

Digits == {"0", "1", "2", "3", "4", "5", "6", "7", "8", "9"}

Letters ==
    {"a", "b", "c", "d", "e", "f", "g", "h", "i", "j", "k", "l", "m", "n", "o", "p", "q", "r", "s", "t", "u", "v", "w", "x", "y", "z"}
    \cup {"A", "B", "C", "D", "E", "F", "G", "H", "I", "J", "K", "L", "M", "N", "O", "P", "Q", "R", "S", "T", "U", "V", "W", "X", "Y", "Z"}

\* strings.Split(s, sep) for a separator of one character
RECURSIVE Split(_, _)
Split(s, sep) ==
    IF \A i \in DOMAIN s : s[i] # sep THEN <<s>>
    ELSE LET k == CHOOSE i \in DOMAIN s :
                      s[i] = sep /\ \A j \in 1..(i - 1) : s[j] # sep
         IN  <<SubSeq(s, 1, k - 1)>> \o Split(SubSeq(s, k + 1, Len(s)), sep)

\* strings.Contains(s, sub)
Contains(s, sub) ==
    \E i \in 1..(Len(s) - Len(sub) + 1) : SubSeq(s, i, i + Len(sub) - 1) = sub

\* the pieces of a pattern: one character of a class, c?, c+
One(cls) == [cls |-> cls, q |-> "one"]
Opt(cls) == [cls |-> cls, q |-> "opt"]
Plus(cls) == [cls |-> cls, q |-> "plus"]

Word(w) == [i \in DOMAIN w |-> One({w[i]})]

\* pieces k.. match s from position i up to its end (every pattern ends in $)
RECURSIVE MatchAt(_, _, _, _)
MatchAt(pieces, k, s, i) ==
    IF k > Len(pieces) THEN i = Len(s) + 1
    ELSE LET here == i <= Len(s) /\ s[i] \in pieces[k].cls
         IN  CASE pieces[k].q = "one" -> here /\ MatchAt(pieces, k + 1, s, i + 1)
               [] pieces[k].q = "opt" ->
                      \/ MatchAt(pieces, k + 1, s, i)
                      \/ here /\ MatchAt(pieces, k + 1, s, i + 1)
               [] pieces[k].q = "plus" ->
                      here /\ (\/ MatchAt(pieces, k + 1, s, i + 1)
                               \/ MatchAt(pieces, k, s, i + 1))

\* a pattern: its alternatives, and whether it starts with ^
MatchString(re, s) ==
    \E alt \in re.alts :
        IF re.anchored THEN MatchAt(alt, 1, s, 1)
        ELSE \E i \in 1..(Len(s) + 1) : MatchAt(alt, 1, s, i)

Num == Plus(Digits)
Dot == One({"."})
Und == One({"_"})

versionRegexes ==
    <<[anchored |-> TRUE, alts |-> {<<Opt({"v"}), Num, Dot, Num, Dot, Num>>}],
      [anchored |-> TRUE, alts |-> {<<Opt({"v"}), Num, Dot, Num>>}],
      [anchored |-> FALSE,
       alts |-> {<<Plus(Letters), Opt({"-"}), Num, Und, Num, Und, Num>>}],
      [anchored |-> FALSE,
       alts |-> {<<Plus(Letters), Opt({"-"}), Num, Dot, Num, Dot, Num>>}],
      [anchored |-> FALSE,
       alts |-> {<<Plus(Letters), Opt({"_"}), Num, Dot, Num, Dot, Num>>}],
      [anchored |-> FALSE, alts |-> {<<Plus(Letters), Opt({"_"}), Num, Dot, Num>>}],
      [anchored |-> TRUE,
       alts |-> {Word(<<"m", "a", "s", "t", "e", "r">>), Word(<<"l", "a", "t", "e", "s", "t">>), Word(<<"s", "t", "a", "b", "l", "e">>), Word(<<"m", "a", "i", "n">>)}]>>

validateVersionName(version) ==
    \E k \in DOMAIN versionRegexes : MatchString(versionRegexes[k], version)

-----------------------------------------------------------------------------
(* The classifier on its own: a ref name is drawn and classified. *)

MaxNameLen == 5     \* longest ref name built from Sigma

Sigma == {"v", "b", "1", ".", "_", "-"}

SampleNames ==
    {<<"v", "1", ".", "2", ".", "3">>, <<"1", ".", "2">>, <<"l", "i", "b", "-", "1", "_", "2", "_", "3">>, <<"s", "t", "a", "b", "l", "e">>, <<"m", "a", "s", "t", "e", "r">>, <<"l", "a", "t", "e", "s", "t">>, <<"m", "a", "i", "n">>,
     <<"f", "o", "o", "-", "b", "a", "r">>, <<"v", "1">>, <<"r", "e", "l", "-", "v", "1", ".", "2", ".", "3">>, <<"l", "i", "b", "_", "1", ".", "2">>, <<"l", "i", "b", "-", "1", ".", "2", ".", "3">>}

RefNames == BSeq(Sigma, MaxNameLen) \cup SampleNames

ClassifyInit ==
    /\ refName \in RefNames
    /\ verdict = "none"

ClassifyIdle ==
    /\ refName = <<>>
    /\ verdict = "none"

Classify ==
    /\ verdict = "none"
    /\ verdict' = IF validateVersionName(refName) THEN "version" ELSE "other"
    /\ UNCHANGED <<refName, notClassify>>

-----------------------------------------------------------------------------
(* The resolver: getRemoteVersions on the Package that Transform builds.    *)

MaxRefs == 3        \* refs the remote lists

NilSlice == [isNil |-> TRUE, elems |-> <<>>]

Slice(elems) == [isNil |-> FALSE, elems |-> elems]

Leaves == {<<"v", "1", ".", "0", ".", "0">>, <<"v", "1", ".", "1", ".", "0">>, <<"m", "a", "i", "n">>, <<"f", "o", "o", "-", "b", "a", "r">>}

\* a listed ref: refs/<ns>/<dir><leaf>, or the HEAD line
Refs ==
    [ns : {"tags", "heads"}, dir : {<<>>}, leaf : Leaves]
    \cup {[ns |-> "heads", dir |-> <<"f", "/">>, leaf |-> <<"m", "a", "i", "n">>],
          [ns |-> "pull", dir |-> <<>>, leaf |-> <<"v", "1", ".", "0", ".", "0">>],
          [ns |-> "HEAD", dir |-> <<>>, leaf |-> <<"H", "E", "A", "D">>]}

NsPath(ns) ==
    CASE ns = "tags" -> <<"r", "e", "f", "s", "/", "t", "a", "g", "s", "/">>
      [] ns = "heads" -> <<"r", "e", "f", "s", "/", "h", "e", "a", "d", "s", "/">>
      [] ns = "pull" -> <<"r", "e", "f", "s", "/", "p", "u", "l", "l", "/">>
      [] ns = "HEAD" -> <<>>

\* one line of git ls-remote: the object name, a tab, the ref
Line(ref) == <<"h", "\t">> \o NsPath(ref.ns) \o ref.dir \o ref.leaf

\* the output of git ls-remote for the refs listed
LsRemoteOutput(refs) == Flatten([i \in DOMAIN refs |-> Line(refs[i]) \o <<"\n">>])

\* a parse that looks at the tags only
parseRemoteLsTags_tagsOnly(output) ==
    LET lines == Split(output, "\n")
        tagOf(line) == LET parts == Split(line, "/") IN parts[Len(parts)]
    IN  SelectSeq(MapSeq(SelectSeq(lines, LAMBDA l : Contains(l, <<"r", "e", "f", "s", "/", "t", "a", "g", "s", "/">>)),
                         tagOf),
                  validateVersionName)

parseRemoteLsTags(output) ==
    LET lines == Split(output, "\n")
        tagOf(line) == LET parts == Split(line, "/") IN parts[Len(parts)]
    IN  SelectSeq(MapSeq(SelectSeq(lines,
                                   LAMBDA l : \/ Contains(l, <<"r", "e", "f", "s", "/", "t", "a", "g", "s", "/">>)
                                              \/ Contains(l, <<"r", "e", "f", "s", "/", "h", "e", "a", "d", "s", "/">>)),
                         tagOf),
                  validateVersionName)

RawVersions == {<<>>, <<"0", ".", "9">>}

ResolveInit ==
    /\ rp \in [Name : {"p"}, Version : RawVersions, GitURL : {"", "url"}]
    /\ remote \in [fails : {TRUE}, refs : {<<>>}]
                  \cup [fails : {FALSE}, refs : BSeq(Refs, MaxRefs)]
    /\ rp.GitURL = "" => remote = [fails |-> TRUE, refs |-> <<>>]
    /\ packageInfo = [Name |-> "", Version |-> <<>>, Versions |-> NilSlice, GitURL |-> ""]
    /\ invoked = FALSE
    /\ err = "none"
    /\ rpc = "start"

ResolveIdle ==
    /\ rp = [Name |-> "", Version |-> <<>>, GitURL |-> ""]
    /\ remote = [fails |-> TRUE, refs |-> <<>>]
    /\ packageInfo = [Name |-> "", Version |-> <<>>, Versions |-> NilSlice, GitURL |-> ""]
    /\ invoked = FALSE
    /\ err = "none"
    /\ rpc = "idle"

\* Transform, resolver variant, from the Package literal on: lines 456-468
BuildPackage ==
    /\ rpc = "start"
    /\ packageInfo' = [Name |-> rp.Name, Version |-> rp.Version, Versions |-> NilSlice,
               GitURL |-> rp.GitURL]
    /\ rpc' = "built"
    /\ UNCHANGED <<rp, remote, invoked, err, notResolve>>

\* getRemoteVersions on the Package info against the remote rem: the
\* Package it leaves, whether git ls-remote ran, the error it returns
RemoteVersions(info, rem) ==
    IF info.GitURL # ""
    THEN IF rem.fails
         THEN [info |-> [info EXCEPT !.Versions = Slice(<<>>)],
               invoked |-> TRUE, err |-> "nil"]
         ELSE LET tags == parseRemoteLsTags(LsRemoteOutput(rem.refs))
              IN  IF Len(tags) > 0
                  THEN [info |-> [info EXCEPT !.Version = tags[Len(tags)],
                                              !.Versions = Slice(tags)],
                        invoked |-> TRUE, err |-> "nil"]
                  ELSE [info |-> [info EXCEPT !.Versions = Slice(<<>>)],
                        invoked |-> TRUE, err |-> "nil"]
    ELSE [info |-> [info EXCEPT !.Versions = Slice(<<>>)],
          invoked |-> FALSE, err |-> "nil"]

\* getRemoteVersions(&pkg), and the return of Transform
getRemoteVersions ==
    /\ rpc = "built"
    /\ rpc' = "done"
    /\ LET r == RemoteVersions(packageInfo, remote)
       IN  /\ packageInfo' = r.info
           /\ invoked' = r.invoked
           /\ err' = r.err
    /\ UNCHANGED <<rp, remote, notResolve>>

-----------------------------------------------------------------------------
(* Claims about the classifier and the resolver. *)

\* the grammars of versionRegexes, each matched against the whole name
ExactGrammar(name) ==
    \E k \in DOMAIN versionRegexes :
        MatchString([versionRegexes[k] EXCEPT !.anchored = TRUE], name)

\* C7: a ref name is classified as a version tag if and only if the whole
\* name matches one of the grammars; v1.2.3, 1.2, lib-1_2_3 and stable are
\* accepted, foo-bar and v1 are rejected.
C7_WholeNameMatches ==
    verdict # "none" =>
        /\ verdict = "version" <=> ExactGrammar(refName)
        /\ refName \in {<<"v", "1", ".", "2", ".", "3">>, <<"1", ".", "2">>, <<"l", "i", "b", "-", "1", "_", "2", "_", "3">>, <<"s", "t", "a", "b", "l", "e">>} =>
               verdict = "version"
        /\ refName \in {<<"f", "o", "o", "-", "b", "a", "r">>, <<"v", "1">>} => verdict = "other"

\* the examples of C7 are classified as the claim says
C7_Examples ==
    verdict # "none" =>
        /\ refName \in {<<"v", "1", ".", "2", ".", "3">>, <<"1", ".", "2">>, <<"l", "i", "b", "-", "1", "_", "2", "_", "3">>, <<"s", "t", "a", "b", "l", "e">>} =>
               verdict = "version"
        /\ refName \in {<<"f", "o", "o", "-", "b", "a", "r">>, <<"v", "1">>} => verdict = "other"

\* the modes in which the resolver finds no version
NoVersionFound ==
    \/ rp.GitURL = ""
    \/ remote.fails
    \/ \A i \in DOMAIN remote.refs :
           \/ remote.refs[i].ns \notin {"tags", "heads"}
           \/ ~validateVersionName(remote.refs[i].leaf)

\* C6: the resolver returns no error; with an empty git URL, a failed
\* ls-remote or no qualifying ref the package ends with version "" and
\* versions an empty, non-nil slice; with an empty git URL ls-remote is
\* not invoked.
C6_FailureGivesEmptyVersion ==
    rpc = "done" =>
        /\ err = "nil"
        /\ rp.GitURL = "" => ~invoked
        /\ NoVersionFound => (packageInfo.Version = <<>> /\ packageInfo.Versions = Slice(<<>>))

\* what of C6 the code does: no error, versions an empty non-nil slice,
\* no ls-remote for an empty URL, the version left as the manifest gave it
C6_FailureGivesEmptyVersions ==
    rpc = "done" =>
        /\ err = "nil"
        /\ rp.GitURL = "" => ~invoked
        /\ NoVersionFound => (packageInfo.Version = rp.Version /\ packageInfo.Versions = Slice(<<>>))

\* the leaves of the refs under refs/tags/ and refs/heads/ that classify
\* as version tags, in the order listed
QualifyingLeaves ==
    MapSeq(SelectSeq(remote.refs,
                     LAMBDA r : /\ r.ns \in {"tags", "heads"}
                                /\ validateVersionName(r.leaf)),
           LAMBDA r : r.leaf)

ExampleRefs ==
    <<[ns |-> "tags", dir |-> <<>>, leaf |-> <<"v", "1", ".", "0", ".", "0">>],
      [ns |-> "tags", dir |-> <<>>, leaf |-> <<"v", "1", ".", "1", ".", "0">>],
      [ns |-> "heads", dir |-> <<>>, leaf |-> <<"m", "a", "i", "n">>]>>

\* C8: the resolved versions are the final path components of the lines
\* under refs/tags/ or refs/heads/ that classify as version tags, in the
\* order listed, not sorted, not deduplicated; the current version is the
\* last of them; refs/tags/v1.0.0, refs/tags/v1.1.0, refs/heads/main give
\* versions [v1.0.0, v1.1.0, main] and current version main.
C8_VersionsInListedOrder ==
    (rpc = "done" /\ rp.GitURL # "" /\ ~remote.fails) =>
        /\ packageInfo.Versions.elems = QualifyingLeaves
        /\ QualifyingLeaves # <<>> =>
               packageInfo.Version = QualifyingLeaves[Len(QualifyingLeaves)]
        /\ remote.refs = ExampleRefs =>
               /\ packageInfo.Versions = Slice(<<<<"v", "1", ".", "0", ".", "0">>, <<"v", "1", ".", "1", ".", "0">>, <<"m", "a", "i", "n">>>>)
               /\ packageInfo.Version = <<"m", "a", "i", "n">>

\* the example of C8 has been resolved
C8_Witness ==
    /\ rpc = "done" /\ rp.GitURL # "" /\ ~remote.fails
    /\ remote.refs = ExampleRefs
    /\ packageInfo.Version = <<"m", "a", "i", "n">>

-----------------------------------------------------------------------------
(* The manifest normalizer.  A raw JSON value is a record tagged with its   *)
(* shape.  An element of a dependency list is a string, an object (with the *)
(* shape of its "name" member) or something else; a description is a        *)
(* sequence of pieces, so that the join of an array is told from a string.  *)

JStr(v) == [k |-> "string", v |-> v, nk |-> ""]

JObj(name) == [k |-> "object", v |-> name, nk |-> "string"]

\* an object without "name", and one whose "name" is a number
JObjNoName == [k |-> "object", v |-> "", nk |-> "missing"]
JObjNumName == [k |-> "object", v |-> "", nk |-> "number"]

JNum == [k |-> "number", v |-> "", nk |-> ""]

JArray(elems) == [k |-> "array", elems |-> elems]

JAbsent == [k |-> "absent", elems |-> <<>>]

JNull == [k |-> "null", elems |-> <<>>]

JNotArray == [k |-> "number", elems |-> <<>>]

\* strings.Join(a, ", ")
RECURSIVE Join(_)
Join(a) ==
    IF a = <<>> THEN <<>>
    ELSE IF Len(a) = 1 THEN <<a[1]>>
    ELSE <<a[1], ", ">> \o Join(Tail(a))

Bootstrap == {"vcpkg-cmake", "vcpkg-msbuild", "vcpkg-cmake-config"}

\* depType["name"].(string) panics unless the member is a string
NamePanics(dep) == dep.k = "object" /\ dep.nk # "string"

\* a loop that filters the bare strings only
RECURSIVE dependencyList_strict_stringsOnly(_, _, _)
dependencyList_strict_stringsOnly(mixedDeps, i, acc) ==
    IF i > Len(mixedDeps) THEN [panic |-> FALSE, list |-> acc]
    ELSE LET dep == mixedDeps[i]
         IN  CASE dep.k = "string" ->
                      dependencyList_strict_stringsOnly(mixedDeps, i + 1,
                          IF dep.v \notin Bootstrap THEN Append(acc, dep.v) ELSE acc)
               [] dep.k = "object" ->
                      IF NamePanics(dep) THEN [panic |-> TRUE, list |-> acc]
                      ELSE dependencyList_strict_stringsOnly(mixedDeps, i + 1,
                                                             Append(acc, dep.v))
               [] OTHER -> dependencyList_strict_stringsOnly(mixedDeps, i + 1, acc)

\* the loop over mixedDeps of the strict variant, from element i on
RECURSIVE dependencyList_strict(_, _, _)
dependencyList_strict(mixedDeps, i, acc) ==
    IF i > Len(mixedDeps) THEN [panic |-> FALSE, list |-> acc]
    ELSE LET dep == mixedDeps[i]
         IN  CASE dep.k = "string" ->
                      dependencyList_strict(mixedDeps, i + 1,
                          IF dep.v \notin Bootstrap THEN Append(acc, dep.v) ELSE acc)
               [] dep.k = "object" ->
                      IF NamePanics(dep) THEN [panic |-> TRUE, list |-> acc]
                      ELSE dependencyList_strict(mixedDeps, i + 1,
                               IF dep.v \in Bootstrap THEN acc ELSE Append(acc, dep.v))
               [] OTHER -> dependencyList_strict(mixedDeps, i + 1, acc)

\* a loop that drops a name it has already appended
RECURSIVE dependencyList_resolver_unique(_, _, _)
dependencyList_resolver_unique(mixedDeps, i, acc) ==
    IF i > Len(mixedDeps) THEN [panic |-> FALSE, list |-> acc]
    ELSE LET dep == mixedDeps[i]
         IN  CASE dep.k = "string" ->
                      dependencyList_resolver_unique(mixedDeps, i + 1,
                          IF dep.v \in Range(acc) THEN acc ELSE Append(acc, dep.v))
               [] dep.k = "object" ->
                      IF NamePanics(dep) THEN [panic |-> TRUE, list |-> acc]
                      ELSE dependencyList_resolver_unique(mixedDeps, i + 1,
                               IF dep.v \in Range(acc) THEN acc ELSE Append(acc, dep.v))
               [] OTHER -> dependencyList_resolver_unique(mixedDeps, i + 1, acc)

\* the loop over mixedDeps of the resolver variant, from element i on
RECURSIVE dependencyList_resolver(_, _, _)
dependencyList_resolver(mixedDeps, i, acc) ==
    IF i > Len(mixedDeps) THEN [panic |-> FALSE, list |-> acc]
    ELSE LET dep == mixedDeps[i]
         IN  CASE dep.k = "string" ->
                      dependencyList_resolver(mixedDeps, i + 1, Append(acc, dep.v))
               [] dep.k = "object" ->
                      IF NamePanics(dep) THEN [panic |-> TRUE, list |-> acc]
                      ELSE dependencyList_resolver(mixedDeps, i + 1, Append(acc, dep.v))
               [] OTHER -> dependencyList_resolver(mixedDeps, i + 1, acc)

\* json.Unmarshal(rp.Dependencies, &mixedDeps): an array or null decodes
UnmarshalFails(rawDeps) == rawDeps.k \notin {"array", "null"}

\* the description of a package: a string, else an array of strings
\* joined, else the error of the decode
Description(rawDesc) ==
    CASE rawDesc.k = "string" -> [err |-> FALSE, v |-> rawDesc.v]
      [] rawDesc.k = "array" -> [err |-> FALSE, v |-> Join(rawDesc.v)]
      [] OTHER -> [err |-> TRUE, v |-> <<>>]

\* the description of a feature: d.(string) panics on an array element
\* that is no string, any other shape leaves the description empty
featureDescription(desc) ==
    CASE desc.k = "string" -> [panic |-> FALSE, v |-> desc.v]
      [] desc.k = "array" -> [panic |-> FALSE, v |-> Join(desc.v)]
      [] desc.k = "badarray" -> [panic |-> TRUE, v |-> <<>>]
      [] OTHER -> [panic |-> FALSE, v |-> <<>>]

\* a loop that takes a bare string naming the package for a self-reference
RECURSIVE featureDeps_stringSelf(_, _, _, _, _, _)
featureDeps_stringSelf(rpName, featName, depList, i, deps, required) ==
    IF i > Len(depList)
    THEN [panic |-> FALSE, Dependencies |-> deps, RequiredFeatures |-> required]
    ELSE LET dep == depList[i]
         IN  CASE dep.k \in {"string", "object"} ->
                      IF NamePanics(dep)
                      THEN [panic |-> TRUE, Dependencies |-> deps,
                            RequiredFeatures |-> required]
                      ELSE IF dep.v = rpName
                      THEN featureDeps_stringSelf(rpName, featName, depList, i + 1,
                                                  deps, Append(required, featName))
                      ELSE featureDeps_stringSelf(rpName, featName, depList, i + 1,
                                                  Append(deps, dep.v), required)
               [] OTHER -> featureDeps_stringSelf(rpName, featName, depList, i + 1,
                                                  deps, required)

\* the loop over the dependencies of feature featName, from element i on
\* (the same in both variants)
RECURSIVE featureDeps(_, _, _, _, _, _)
featureDeps(rpName, featName, depList, i, deps, required) ==
    IF i > Len(depList)
    THEN [panic |-> FALSE, Dependencies |-> deps, RequiredFeatures |-> required]
    ELSE LET dep == depList[i]
         IN  CASE dep.k = "string" ->
                      featureDeps(rpName, featName, depList, i + 1,
                                  Append(deps, dep.v), required)
               [] dep.k = "object" ->
                      IF NamePanics(dep)
                      THEN [panic |-> TRUE, Dependencies |-> deps,
                            RequiredFeatures |-> required]
                      ELSE IF dep.v = rpName
                      THEN featureDeps(rpName, featName, depList, i + 1,
                                       deps, Append(required, featName))
                      ELSE featureDeps(rpName, featName, depList, i + 1,
                                       Append(deps, dep.v), required)
               [] OTHER -> featureDeps(rpName, featName, depList, i + 1,
                                       deps, required)

\* one entry of the feature map: feat.(map[string]interface{}) panics
\* unless the value is an object
featureOf(rpName, featName, feat) ==
    IF feat.k # "object" THEN [panic |-> TRUE]
    ELSE LET d == featureDescription(feat.description)
             l == IF feat.dependencies.k = "array"
                  THEN featureDeps(rpName, featName, feat.dependencies.elems,
                                   1, <<>>, <<>>)
                  ELSE [panic |-> FALSE, Dependencies |-> <<>>,
                        RequiredFeatures |-> <<>>]
         IN  IF d.panic \/ l.panic THEN [panic |-> TRUE]
             ELSE [panic |-> FALSE, Description |-> d.v,
                   RequiredFeatures |-> l.RequiredFeatures,
                   Dependencies |-> l.Dependencies]

\* featuresMap: filled from a JSON object, left empty for any other shape
featuresMapOf(rpName, rawFeatures) ==
    IF rawFeatures.k # "map" THEN [panic |-> FALSE, m |-> NoFeatures]
    ELSE LET one(f) == featureOf(rpName, f, rawFeatures.m[f])
         IN  IF \E f \in DOMAIN rawFeatures.m : one(f).panic
             THEN [panic |-> TRUE, m |-> NoFeatures]
             ELSE [panic |-> FALSE,
                   m |-> [f \in DOMAIN rawFeatures.m |->
                             [Description |-> one(f).Description,
                              RequiredFeatures |-> one(f).RequiredFeatures,
                              Dependencies |-> one(f).Dependencies]]]

MapDependencyToCMakeTarget(depName) ==
    CASE depName = "boost-asio" -> "Boost::asio"
      [] depName = "boost-system" -> "Boost::system"
      [] depName = "openssl" -> "OpenSSL::SSL"
      [] OTHER -> depName

Outcome(kind, p) == [kind |-> kind, pkg |-> p]

NoPackage == [Name |-> ""]

\* the fields both variants copy from the raw entry
Copied(r, description, dependencyList, featuresMap) ==
    [Name |-> r.Name, Version |-> r.Version, Description |-> description,
     GitURL |-> r.GitURL, License |-> r.License, Supports |-> r.Supports,
     Stars |-> r.Stars, LastModified |-> r.LastModified,
     Dependencies |-> dependencyList, Features |-> featuresMap]

\* Transform of the strict variant: a Package, an error, or a panic
Transform_strict(r) ==
    IF UnmarshalFails(r.Dependencies) THEN Outcome("error", NoPackage)
    ELSE LET deps == dependencyList_strict(r.Dependencies.elems, 1, <<>>)
             desc == Description(r.Description)
             feats == featuresMapOf(r.Name, r.Features)
         IN  IF deps.panic THEN Outcome("panic", NoPackage)
             ELSE IF desc.err THEN Outcome("error", NoPackage)
             ELSE IF feats.panic THEN Outcome("panic", NoPackage)
             ELSE Outcome("ok",
                          [f \in {"Versions"} |-> NilSlice]
                          @@ Copied(r, desc.v, deps.list, feats.m))

\* Transform of the resolver variant, against the remote rem
Transform_resolver(r, rem) ==
    IF UnmarshalFails(r.Dependencies) THEN Outcome("error", NoPackage)
    ELSE LET deps == dependencyList_resolver(r.Dependencies.elems, 1, <<>>)
             desc == Description(r.Description)
             feats == featuresMapOf(r.Name, r.Features)
         IN  IF deps.panic THEN Outcome("panic", NoPackage)
             ELSE IF desc.err THEN Outcome("error", NoPackage)
             ELSE IF feats.panic THEN Outcome("panic", NoPackage)
             ELSE Outcome("ok",
                          RemoteVersions(
                              [f \in {"Versions"} |-> NilSlice]
                              @@ [f \in {"CMakeTarget"} |->
                                     MapDependencyToCMakeTarget(r.Name)]
                              @@ [f \in {"Tag"} |-> ""]
                              @@ Copied(r, desc.v, deps.list, feats.m),
                              rem).info)

-----------------------------------------------------------------------------
(* One Transform of one raw entry, by either variant. *)

MaxRawDeps == 2     \* longest raw dependency list
MaxFeatDeps == 2    \* longest raw dependency list of the feature under test

DepWords == {"a", "b"} \cup Bootstrap

DepElems ==
    {JStr(n) : n \in DepWords} \cup {JObj(n) : n \in DepWords}
    \cup {JObjNoName, JObjNumName, JNum}

RawDeps == {JArray(e) : e \in BSeq(DepElems, MaxRawDeps)} \cup {JAbsent, JNull, JNotArray}

RawDescs ==
    {[k |-> "string", v |-> <<"d">>], [k |-> "array", v |-> <<"d1", "d2">>],
     [k |-> "number", v |-> <<>>]}

FeatDescs == RawDescs \cup {[k |-> "badarray", v |-> <<>>], [k |-> "absent", v |-> <<>>]}

FeatElems == {JStr("y"), JStr("p"), JObj("p"), JObj("y"), JObjNoName, JNum}

RawFeature(d, deps) == [k |-> "object", description |-> d, dependencies |-> deps]

NotAnObject == [k |-> "number", description |-> [k |-> "absent", v |-> <<>>],
                dependencies |-> JAbsent]

\* the values of the feature under test, and the few of a second feature
FeatValues ==
    {RawFeature(d, l) : d \in FeatDescs,
                        l \in {JArray(e) : e \in BSeq(FeatElems, MaxFeatDeps)}
                              \cup {JAbsent}}
    \cup {NotAnObject}

OtherFeatValues ==
    {RawFeature([k |-> "string", v |-> <<"d">>], JArray(e)) :
        e \in BSeq({JStr("x"), JObj("p"), JObjNoName}, 1)}
    \cup {NotAnObject}

RawFeatures ==
    {[k |-> t, m |-> NoFeatures] : t \in {"absent", "array", "number"}}
    \cup {[k |-> "map", m |-> [f \in {"x"} |-> v]] : v \in FeatValues}
    \cup {[k |-> "map", m |-> [f \in {"x", "y"} |-> IF f = "x" THEN v ELSE w]] :
             v \in OtherFeatValues, w \in OtherFeatValues}

RawEntry(name, deps, desc, feats) ==
    [Name |-> name, Version |-> <<"1", ".", "0">>, Description |-> desc, GitURL |-> "",
     License |-> "MIT", Supports |-> "", Stars |-> 7, LastModified |-> "t0",
     Dependencies |-> deps, Features |-> feats]

PlainDeps == JArray(<<JStr("a"), JObj("b")>>)
PlainDesc == [k |-> "string", v |-> <<"d">>]
PlainFeatures == [k |-> "absent", m |-> NoFeatures]

\* the raw entries: every dependency list and description with no
\* features, and every features value with a plain dependency list
RawEntries ==
    {RawEntry("p", d, t, PlainFeatures) : d \in RawDeps, t \in RawDescs}
    \cup {RawEntry("p", PlainDeps, PlainDesc, f) : f \in RawFeatures}

NoRemote == [fails |-> TRUE, refs |-> <<>>]

NoOutcome == Outcome("none", NoPackage)

TransformInit ==
    /\ raw \in RawEntries
    /\ result = [variant |-> "none", out |-> NoOutcome]

TransformIdle ==
    /\ raw = RawEntry("", JAbsent, PlainDesc, PlainFeatures)
    /\ result = [variant |-> "idle", out |-> NoOutcome]

TransformStrict ==
    /\ result.variant = "none"
    /\ result' = [variant |-> "strict", out |-> Transform_strict(raw)]
    /\ UNCHANGED <<raw, notTransform>>

TransformResolver ==
    /\ result.variant = "none"
    /\ result' = [variant |-> "resolver", out |-> Transform_resolver(raw, NoRemote)]
    /\ UNCHANGED <<raw, notTransform>>

-----------------------------------------------------------------------------
(* main of the strict variant: decode data.json, Transform every entry of   *)
(* root.Source, write transformed_data.json.  A panic of Transform ends the *)
(* process where it stands.                                                 *)

MaxSource == 3      \* entries of root.Source

GoodEntry(name) == RawEntry(name, PlainDeps, PlainDesc, PlainFeatures)

\* the entries of a batch: two sound ones, one whose dependency object has
\* no name, one whose has a number for a name, one without a description
BatchEntries ==
    {GoodEntry("p"), GoodEntry("q"),
     RawEntry("r", JArray(<<JStr("a"), JObjNoName>>), PlainDesc, PlainFeatures),
     RawEntry("s", JArray(<<JObjNumName>>), PlainDesc, PlainFeatures),
     RawEntry("t", PlainDeps, [k |-> "number", v |-> <<>>], PlainFeatures)}

MainInit ==
    /\ file \in [data : {"missing", "malformed", "ok"}, create : {"ok", "fails"}]
    /\ source \in BSeq(BatchEntries, MaxSource)
    /\ file.data # "ok" => source = <<>>
    /\ idx = 0
    /\ transformedPackages = <<>>
    /\ outputFile = [written |-> FALSE, packages |-> <<>>]
    /\ mpc = "start"

MainIdle ==
    /\ file = [data |-> "missing", create |-> "ok"]
    /\ source = <<>>
    /\ idx = 0
    /\ transformedPackages = <<>>
    /\ outputFile = [written |-> FALSE, packages |-> <<>>]
    /\ mpc = "idle"

\* os.Open and the decode of the root
ReadInput ==
    /\ mpc = "start"
    /\ mpc' = IF file.data = "ok" THEN "loop" ELSE "returned"
    /\ idx' = 1
    /\ UNCHANGED <<file, source, transformedPackages, outputFile, notMain>>

\* one iteration of the loop over root.Source
TransformNext ==
    /\ mpc = "loop"
    /\ idx <= Len(source)
    /\ LET t == Transform_strict(source[idx])
       IN  CASE t.kind = "panic" ->
                    /\ mpc' = "panicked"
                    /\ UNCHANGED <<idx, transformedPackages>>
             [] t.kind = "error" ->
                    /\ idx' = idx + 1
                    /\ UNCHANGED <<mpc, transformedPackages>>
             [] OTHER ->
                    /\ idx' = idx + 1
                    /\ transformedPackages' = Append(transformedPackages, t.pkg)
                    /\ UNCHANGED mpc
    /\ UNCHANGED <<file, source, outputFile, notMain>>

\* os.Create and the encode of transformedPackages
WriteOutput ==
    /\ mpc = "loop"
    /\ idx > Len(source)
    /\ mpc' = "returned"
    /\ outputFile' = IF file.create = "ok"
                 THEN [written |-> TRUE, packages |-> transformedPackages]
                 ELSE outputFile
    /\ UNCHANGED <<file, source, idx, transformedPackages, notMain>>

-----------------------------------------------------------------------------
(* Claims about the normalizer. *)

\* a dependency object whose name is missing or not a string
BadDependency(r) ==
    /\ r.Dependencies.k = "array"
    /\ \E i \in DOMAIN r.Dependencies.elems :
           /\ r.Dependencies.elems[i].k = "object"
           /\ r.Dependencies.elems[i].nk # "string"

Sound(r) == ~BadDependency(r) /\ r.Description.k \in {"string", "array"}

\* C9: an entry with a dependency object whose name is missing or not a
\* string is left out of the output and does not stop the run: every other
\* entry is still normalized and the output is written.
C9_BadDependencySkipsOneEntry ==
    /\ mpc # "panicked"
    /\ (mpc = "returned" /\ file.data = "ok" /\ file.create = "ok") =>
           /\ outputFile.written
           /\ MapSeq(outputFile.packages, LAMBDA q : q.Name)
                  = MapSeq(SelectSeq(source, Sound), LAMBDA r : r.Name)

\* what the code does for C9: the run ends at the first such entry, and
\* nothing is written; without one the sound entries are written in order
C9_BadDependencyStopsRun ==
    /\ mpc = "panicked" => (BadDependency(source[idx]) /\ ~outputFile.written)
    /\ (mpc = "returned" /\ file.data = "ok") =>
           /\ \A i \in DOMAIN source : ~BadDependency(source[i])
           /\ outputFile.written <=> file.create = "ok"
           /\ outputFile.written =>
                  MapSeq(outputFile.packages, LAMBDA q : q.Name)
                      = MapSeq(SelectSeq(source, Sound), LAMBDA r : r.Name)

\* the feature values whose Transform can succeed
IsList(feat) == feat.k = "object" /\ feat.dependencies.k = "array"

SelfRef(r, dep) == dep.k = "object" /\ dep.nk = "string" /\ dep.v = r.Name

Kept(r, dep) == dep.k = "string" \/ (dep.k = "object" /\ dep.nk = "string"
                                     /\ dep.v # r.Name)

\* C10: in feature F of package P every object of the raw dependency list
\* named as P adds F to required_features and nothing to dependencies;
\* every other object and every bare string (one equal to P's name too) is
\* appended to the dependencies in source order; feature x with
\* [{name: P}, y] gives required_features [x] and dependencies [y].
C10_SelfReference ==
    result.out.kind = "ok" =>
        \A F \in DOMAIN result.out.pkg.Features :
            LET feat == raw.Features.m[F]
                got == result.out.pkg.Features[F]
                list == IF IsList(feat) THEN feat.dependencies.elems ELSE <<>>
            IN  /\ got.RequiredFeatures =
                       MapSeq(SelectSeq(list, LAMBDA d : SelfRef(raw, d)),
                              LAMBDA d : F)
                /\ got.Dependencies =
                       MapSeq(SelectSeq(list, LAMBDA d : Kept(raw, d)),
                              LAMBDA d : d.v)
                /\ list = <<JObj(raw.Name), JStr("y")>> =>
                       /\ got.RequiredFeatures = <<F>>
                       /\ got.Dependencies = <<"y">>

\* the example of C10, and a bare string naming the package, normalized
C10_Witness ==
    /\ result.out.kind = "ok"
    /\ "x" \in DOMAIN result.out.pkg.Features
    /\ raw.Features.m["x"].dependencies = JArray(<<JObj("p"), JStr("y")>>)
    /\ result.out.pkg.Features["x"].RequiredFeatures = <<"x">>

\* the elements of a raw dependency list that carry a name
Named(dep) == dep.k = "string" \/ (dep.k = "object" /\ dep.nk = "string")

RawList(r) == IF r.Dependencies.k = "array" THEN r.Dependencies.elems ELSE <<>>

\* C11: for every raw entry the strict normalizer accepts, the package
\* dependencies hold none of vcpkg-cmake, vcpkg-cmake-config, vcpkg-msbuild,
\* given as a plain string or as the name of an object, and every other
\* dependency of the source is kept (in source order, repeats included).
C11_BootstrapFiltered ==
    (result.variant = "strict" /\ result.out.kind = "ok") =>
        /\ \A i \in DOMAIN result.out.pkg.Dependencies :
               result.out.pkg.Dependencies[i]
                   \notin {"vcpkg-cmake", "vcpkg-cmake-config", "vcpkg-msbuild"}
        /\ result.out.pkg.Dependencies =
               MapSeq(SelectSeq(RawList(raw),
                                LAMBDA d : Named(d) /\ d.v \notin
                                    {"vcpkg-cmake", "vcpkg-cmake-config",
                                     "vcpkg-msbuild"}),
                      LAMBDA d : d.v)

\* a bootstrap name given as an object is dropped, the string after it kept
C11_Witness ==
    /\ result.variant = "strict"
    /\ result.out.kind = "ok"
    /\ raw.Dependencies = JArray(<<JObj("vcpkg-cmake-config"), JStr("a")>>)
    /\ result.out.pkg.Dependencies = <<"a">>

\* an entry the non-filtering normalizer has no reason to refuse: a list of
\* strings, named objects and other shapes, a description of a known shape,
\* no features
Acceptable(r) ==
    /\ r.Dependencies.k = "array"
    /\ ~BadDependency(r)
    /\ r.Description.k \in {"string", "array"}
    /\ r.Features.k = "absent"

\* C12: in the non-filtering normalizer the package dependencies are the
\* source Dependencies mapped element by element in source order: a plain
\* string as-is, an object by its name, an element of any other shape
\* skipped without failing the package, duplicates passing through;
\* ["a", {name: "b"}] gives ["a", "b"].
C12_MappedInOrder ==
    result.variant = "resolver" =>
        /\ Acceptable(raw) => result.out.kind = "ok"
        /\ result.out.kind = "ok" =>
               /\ result.out.pkg.Dependencies =
                      MapSeq(SelectSeq(RawList(raw), Named), LAMBDA d : d.v)
               /\ RawList(raw) = <<JStr("a"), JObj("b")>> =>
                      result.out.pkg.Dependencies = <<"a", "b">>

\* an element of another shape skipped and the entry accepted
C12_Witness ==
    /\ result.variant = "resolver"
    /\ result.out.kind = "ok"
    /\ raw.Dependencies = JArray(<<JNum, JObj("b")>>)
    /\ result.out.pkg.Dependencies = <<"b">>

-----------------------------------------------------------------------------
(* Concurrent requests.  net/http runs every handler on a goroutine of its  *)
(* own and the handlers share db without a lock or a transaction, so the    *)
(* db.Exec calls of the requests in flight interleave statement by          *)
(* statement.  A request is the list of statements it has still to run.     *)

MaxRequests == 2    \* requests accepted in one run

\* the db.Exec calls of createPackage in program order; ord is the order in
\* which range visits the keys of pkg.Features
createProgram(pkg, ord) ==
    <<Stmt("packages", "", 0)>>
    \o [i \in DOMAIN pkg.dependencies |-> Stmt("dependencies", "", i)]
    \o Flatten([k \in DOMAIN ord |->
                   <<Stmt("features", ord[k], 0)>>
                   \o [i \in DOMAIN pkg.features[ord[k]].dependencies |->
                          Stmt("feature_dependencies", ord[k], i)]])

\* the db.Exec calls of deletePackage in program order
deleteProgram ==
    <<Stmt("packages", "", 0), Stmt("dependencies", "", 0),
      Stmt("features", "", 0), Stmt("feature_dependencies", "", 0)>>

Request(op, pkg, todo, fail) ==
    [op |-> op, pkg |-> pkg, todo |-> todo, fail |-> fail, status |-> 0,
     failed |-> {}]

\* the row an insert statement of a create writes
rowOf(pkg, stmt) ==
    CASE stmt.t = "packages" -> PackageRow(pkg)
      [] stmt.t = "dependencies" ->
             [package_name |-> pkg.name,
              dependency_name |-> pkg.dependencies[stmt.i]]
      [] stmt.t = "features" ->
             [package_name |-> pkg.name, feature_name |-> stmt.f,
              description |-> pkg.features[stmt.f].description]
      [] OTHER ->
             [package_name |-> pkg.name, feature_name |-> stmt.f,
              dependency_name |-> pkg.features[stmt.f].dependencies[stmt.i]]

\* a create that goes on after a failed insert of the packages row
afterInsertPackage_noReturn(todo, failed) == Tail(todo)

\* what createPackage has left to run after the insert of the packages row:
\* nothing when it failed (the return of line 136)
afterInsertPackage(todo, failed) == IF failed THEN <<>> ELSE Tail(todo)

\* what insertFeatures has left to run after the insert of feature f: the
\* continue of line 159 skips the feature's dependency rows
afterInsertFeature(todo, f, failed) ==
    IF failed
    THEN SelectSeq(Tail(todo),
                   LAMBDA st : ~(st.t = "feature_dependencies" /\ st.f = f))
    ELSE Tail(todo)

RaceInit ==
    /\ reqs = <<>>
    /\ removed = {}

\* POST /package/create is accepted and its body decoded
acceptCreate ==
    /\ Len(reqs) < MaxRequests
    /\ \E pkg \in PackageIn :
       \E ord \in Perms(DOMAIN pkg.features), fail \in FailSets(InsertStmts(pkg)) :
           reqs' = Append(reqs, Request("create", pkg, createProgram(pkg, ord), fail))
    /\ UNCHANGED <<packages, dependencies, features, feature_dependencies,
                   removed, notRace>>

\* /package/delete?name= is accepted
acceptDelete ==
    /\ Len(reqs) < MaxRequests
    /\ \E packageName \in Names, fail \in FailSets(DeleteStmts) :
           reqs' = Append(reqs, Request("delete", [name |-> packageName],
                                        deleteProgram, fail))
    /\ UNCHANGED <<packages, dependencies, features, feature_dependencies,
                   removed, notRace>>

\* a request with its statement stmt run and todo left to run
Ran(r, stmt, todo, done) ==
    [r EXCEPT !.todo = todo,
              !.failed = IF stmt \in r.fail THEN @ \cup {stmt} ELSE @,
              !.status = IF todo # <<>> THEN 0 ELSE done]

\* the next db.Exec of a createPackage in flight
createPackageStep ==
    /\ \E n \in DOMAIN reqs :
        LET r == reqs[n]
            stmt == Head(r.todo)
            failed == stmt \in r.fail
            ins(tbl, t) == IF stmt.t = t /\ ~failed
                           THEN Append(tbl, rowOf(r.pkg, stmt)) ELSE tbl
            todo == CASE stmt.t = "packages" -> afterInsertPackage(r.todo, failed)
                      [] stmt.t = "features" ->
                             afterInsertFeature(r.todo, stmt.f, failed)
                      [] OTHER -> Tail(r.todo)
        IN  /\ r.op = "create"
            /\ r.todo # <<>>
            /\ packages' = ins(packages, "packages")
            /\ dependencies' = ins(dependencies, "dependencies")
            /\ features' = ins(features, "features")
            /\ feature_dependencies' =
                   ins(feature_dependencies, "feature_dependencies")
            /\ reqs' = [reqs EXCEPT ![n] =
                            Ran(r, stmt, todo,
                                IF stmt.t = "packages" /\ failed THEN 500 ELSE 201)]
    /\ UNCHANGED <<removed, notRace>>

\* the next db.Exec of a deletePackage in flight
deletePackageStep ==
    /\ \E n \in DOMAIN reqs :
        LET r == reqs[n]
            stmt == Head(r.todo)
            failed == stmt \in r.fail
            first == stmt.t = "packages"
            del(tbl, t) == IF stmt.t = t /\ ~failed
                           THEN deleteWherePackageName(tbl, r.pkg.name) ELSE tbl
        IN  /\ r.op = "delete"
            /\ r.todo # <<>>
            /\ packages' = IF first /\ ~failed
                           THEN deleteWhereName(packages, r.pkg.name)
                           ELSE packages
            /\ dependencies' = del(dependencies, "dependencies")
            /\ features' = del(features, "features")
            /\ feature_dependencies' =
                   del(feature_dependencies, "feature_dependencies")
            /\ removed' = IF /\ first
                             /\ ~failed
                             /\ \E i \in DOMAIN packages :
                                    packages[i].name = r.pkg.name
                          THEN removed \cup {r.pkg.name} ELSE removed
            /\ reqs' = [reqs EXCEPT ![n] =
                            Ran(r, stmt,
                                IF first /\ failed THEN <<>> ELSE Tail(r.todo),
                                IF first /\ failed THEN 500 ELSE 200)]
    /\ UNCHANGED notRace

-----------------------------------------------------------------------------
(* Claims about concurrent requests, checked under SpecRace. *)

\* the names with a dependent row and no packages row
Orphans ==
    {n \in Names :
        /\ \/ \E i \in DOMAIN dependencies : dependencies[i].package_name = n
           \/ \E i \in DOMAIN features : features[i].package_name = n
           \/ \E i \in DOMAIN feature_dependencies :
                  feature_dependencies[i].package_name = n
        /\ \A i \in DOMAIN packages : packages[i].name # n}

Finished == \A n \in DOMAIN reqs : reqs[n].status # 0

NothingFailed == \A n \in DOMAIN reqs : reqs[n].failed = {}

\* C13: under any interleaving of the store statements of concurrent create
\* and delete requests for the same package name, every dependencies,
\* features and feature_dependencies row has a packages row with the same
\* package name once all requests have finished (stated for the runs in
\* which no statement failed).
C13_NoOrphanRows == (Finished /\ NothingFailed) => Orphans = {}

\* C13 as the code has it: dependent rows without a packages row are left
\* only for a name whose packages row a delete request has removed; checked
\* in every reachable state, statements that fail included.
C13_OrphansOnlyAfterDelete == Orphans \subseteq removed

\* a create overtaken by a delete of its name: both finished, no statement
\* failed, and rows of the create are left without their packages row
C13_Witness ==
    /\ Len(reqs) = 2
    /\ reqs[1].op = "create"
    /\ reqs[2].op = "delete"
    /\ reqs[1].pkg.name = reqs[2].pkg.name
    /\ Finished
    /\ NothingFailed
    /\ reqs[1].status = 201
    /\ reqs[2].status = 200
    /\ Orphans = {reqs[1].pkg.name}

-----------------------------------------------------------------------------
(* The specifications. *)

\* the package server
Init ==
    StoreInit /\ ClassifyIdle /\ ResolveIdle /\ TransformIdle /\ MainIdle
    /\ RaceInit

Next ==
    \/ listPackages
    \/ getPackage
    \/ createPackage
    \/ createMalformed
    \/ deletePackage

Spec == Init /\ [][Next]_vars

\* the classifier
InitClassify ==
    StoreInit /\ ClassifyInit /\ ResolveIdle /\ TransformIdle /\ MainIdle
    /\ RaceInit

NextClassify == Classify

SpecClassify == InitClassify /\ [][NextClassify]_vars

\* the resolver
InitResolve ==
    StoreInit /\ ClassifyIdle /\ ResolveInit /\ TransformIdle /\ MainIdle
    /\ RaceInit

NextResolve ==
    \/ BuildPackage
    \/ getRemoteVersions

SpecResolve == InitResolve /\ [][NextResolve]_vars

\* one Transform
InitTransform ==
    StoreInit /\ ClassifyIdle /\ ResolveIdle /\ TransformInit /\ MainIdle
    /\ RaceInit

NextTransform ==
    \/ TransformStrict
    \/ TransformResolver

SpecTransform == InitTransform /\ [][NextTransform]_vars

\* main
InitMain ==
    StoreInit /\ ClassifyIdle /\ ResolveIdle /\ TransformIdle /\ MainInit
    /\ RaceInit

NextMain ==
    \/ ReadInput
    \/ TransformNext
    \/ WriteOutput

SpecMain == InitMain /\ [][NextMain]_vars

\* concurrent requests
InitRace ==
    StoreInit /\ ClassifyIdle /\ ResolveIdle /\ TransformIdle /\ MainIdle
    /\ RaceInit

NextRace ==
    \/ acceptCreate
    \/ acceptDelete
    \/ createPackageStep
    \/ deletePackageStep

SpecRace == InitRace /\ [][NextRace]_vars

=============================================================================
